---- MODULE Spec2Model ----
(***************************************************************************)
(* Model of the hart-heatmaps data pipeline (src/parsing.py):              *)
(*   parse_workamajig_csv  : export file -> (long records, report date)    *)
(*   build_weekly_headcount: long records x roster x report date           *)
(*                           -> (weekly gap rows, available headcount)     *)
(* and of the script session of src/resource-app.py (definitions upload,   *)
(* Clear Definitions button, heat-map branch).                             *)
(*                                                                         *)
(* Dates are day numbers (1 = 2025-01-01).  pd.NaT is the marker NaT.      *)
(* Floats that the code obtains as Hours / 32 are kept as binary           *)
(* fixed-point integers with FracBits fractional bits (value * Scale);     *)
(* division of an integer number of hours by 32 is exact in both.          *)
(***************************************************************************)
EXTENDS Integers, Sequences, FiniteSets, TLC

(***************************************************************************)
(* Bounds of the model.                                                    *)
(***************************************************************************)
MaxCols  == 2   \* week columns in an export
MaxRows  == 2   \* resource rows in an export body
MaxEmp   == 2   \* rows of the "Employees - Resources" sheet
MaxSvc   == 1   \* rows of the "Services" sheet
MaxLong  == 2   \* long records handed to build_weekly_headcount directly
MaxTicks == 1   \* midnights that pass during a session
MaxCalls == 2   \* calls of parse_workamajig_csv on one file object
MaxHead  == 3   \* week columns of a header handed to extract_dates directly
MaxFiles == 3   \* distinct files a user can select in an uploader

(***************************************************************************)
(* Program constants.                                                      *)
(***************************************************************************)
VALID_DEPARTMENTS ==
    << "Creative - Designer", "Creative - Writer",
       "Tech - Front-end", "Tech - Back-end",
       "Video", "Strategy",
       "PR - Traditional", "PR - Social" >>

HOURS_PER_FTE == 32

WINDOW_WEEKS == 12

NaT == 0

NaN == "NaN"

FracBits == 6

Scale == 2 ^ FracBits

Range(s) == { s[i] : i \in DOMAIN s }

SeqsUpTo(S, n) == UNION { [1..k -> S] : k \in 0..n }

(***************************************************************************)
(* Calendar: what pd.to_datetime / pd.Timestamp compute.                   *)
(***************************************************************************)
MonthNames ==
    << "January", "February", "March", "April", "May", "June", "July",
       "August", "September", "October", "November", "December" >>

EpochYear == 2025

IsLeap(y) == (y % 4 = 0 /\ y % 100 # 0) \/ y % 400 = 0

DaysInMonth(m, y) ==
    IF m = 2 THEN (IF IsLeap(y) THEN 29 ELSE 28)
    ELSE IF m \in {4, 6, 9, 11} THEN 30 ELSE 31

RECURSIVE DaysBeforeMonth(_, _)
DaysBeforeMonth(m, y) ==
    IF m <= 1 THEN 0 ELSE DaysBeforeMonth(m - 1, y) + DaysInMonth(m - 1, y)

RECURSIVE DaysBeforeYear(_)
DaysBeforeYear(y) ==
    IF y <= EpochYear THEN 0
    ELSE DaysBeforeYear(y - 1) + (IF IsLeap(y - 1) THEN 366 ELSE 365)

ValidYMD(y, m, d) ==
    /\ y >= EpochYear
    /\ m \in 1..12
    /\ d >= 1 /\ d <= DaysInMonth(m, y)

Timestamp(y, m, d) == DaysBeforeYear(y) + DaysBeforeMonth(m, y) + d

Timedelta(weeks) == 7 * weeks

MonthNumber(name) ==
    IF \E i \in DOMAIN MonthNames : MonthNames[i] = name
    THEN CHOOSE i \in DOMAIN MonthNames : MonthNames[i] = name
    ELSE 0

YearNumber(word) ==
    CASE word = "2025" -> 2025
      [] word = "2026" -> 2026
      [] OTHER -> 0

(***************************************************************************)
(* CSV cells.  A cell read by pandas is a number, a string or blank (NaN). *)
(***************************************************************************)
Num(v)  == [t |-> "num",   v |-> v]
Text    == [t |-> "text",  v |-> 0]
Blank   == [t |-> "blank", v |-> 0]

(***************************************************************************)
(* extract_dates                                                           *)
(***************************************************************************)
\* months cells are sequences of whitespace-separated words; << >> is blank.
\* Variant: blank cells are left blank.
ffill_absent(row) == row

RECURSIVE ffill(_)
ffill(row) ==
    IF row = << >> THEN << >>
    ELSE LET n    == Len(row)
             init == ffill(SubSeq(row, 1, n - 1))
             cur  == row[n]
         IN  IF cur = << >> /\ n > 1 THEN Append(init, init[n - 1])
             ELSE Append(init, cur)

\* Variant: a day cell that is no number counts as day 1.
column_date_lenient(m, d) ==
    IF Len(m) # 2 THEN NaT
    ELSE LET mo == MonthNumber(m[1])
             yr == YearNumber(m[2])
             dv == IF d.t = "num" THEN d.v ELSE 1
         IN  IF ValidYMD(yr, mo, dv) THEN Timestamp(yr, mo, dv) ELSE NaT

\* One iteration of the loop body: the date of a column or pd.NaT.
column_date(m, d) ==
    IF Len(m) < 2 THEN NaT                      \* no " " in str(m)
    ELSE IF Len(m) # 2 THEN NaT                 \* unpacking m_str.split() fails
    ELSE IF d.t # "num" THEN NaT                \* int(float(d)) fails
    ELSE LET mo == MonthNumber(m[1])
             yr == YearNumber(m[2])
         IN  IF ValidYMD(yr, mo, d.v) THEN Timestamp(yr, mo, d.v) ELSE NaT

\* Variant: columns whose tokens fail are left out of the list of dates.
extract_dates_compact(months, days) ==
    LET filled == ffill(months)
        n      == IF Len(months) < Len(days) THEN Len(months) ELSE Len(days)
        all    == [i \in 1..n |-> column_date(filled[i], days[i])]
    IN  SelectSeq(all, LAMBDA t : t # NaT)

extract_dates(months, days) ==
    LET filled == ffill(months)
        n      == IF Len(months) < Len(days) THEN Len(months) ELSE Len(days)
    IN  [i \in 1..n |-> column_date(filled[i], days[i])]

(***************************************************************************)
(* The header text head.iloc[0,0], as a sequence of tokens.                *)
(*   label  : the characters  Start Date:                                  *)
(*   ws     : one whitespace character                                     *)
(*   bslash : one backslash character                                      *)
(*   s      : the letter s                                                 *)
(*   date   : digits/digits/digits, with the numbers it spells             *)
(*   word   : any other text                                               *)
(***************************************************************************)
Tok(kind)            == [kind |-> kind,   mm |-> 0,  dd |-> 0,  yyyy |-> 0]
DateTok(mm, dd, yy)  == [kind |-> "date", mm |-> mm, dd |-> dd, yyyy |-> yy]

\* re.search(r"Start Date:\\s*([0-9]{1,2}/[0-9]{1,2}/[0-9]{4})", start_text):
\* in a raw string the two backslashes are the regex for ONE literal
\* backslash, and s* is then zero or more letters s.
re_match_at(text, i, j) ==
    /\ i \in DOMAIN text /\ j \in DOMAIN text
    /\ text[i].kind = "label"
    /\ i + 1 < j
    /\ text[i + 1].kind = "bslash"
    /\ \A k \in (i + 2)..(j - 1) : text[k].kind = "s"
    /\ text[j].kind = "date"

re_search(text) ==
    LET hits == { j \in DOMAIN text : \E i \in DOMAIN text : re_match_at(text, i, j) }
    IN  IF hits = {} THEN << >>
        ELSE << text[CHOOSE j \in hits : \A k \in hits : j <= k] >>

\* pd.to_datetime("MM/DD/YYYY"): month first.
to_datetime_mdy(tok) ==
    IF ValidYMD(tok.yyyy, tok.mm, tok.dd)
    THEN Timestamp(tok.yyyy, tok.mm, tok.dd) ELSE NaT

\* line 37: the matched date, else pd.Timestamp.today().normalize()
header_report_date(text, now) ==
    LET m == re_search(text)
    IN  IF m # << >> THEN to_datetime_mdy(m[1]) ELSE now

(***************************************************************************)
(* File object: a position (0 = start, 1 = end of file) over the content.  *)
(***************************************************************************)
seek(pos, target) == target

\* Variant: the file object is not rewound before the header is read.
rewind_skipped(pos) == pos

\* line 32: "Reset to start"
rewind(pos) == seek(pos, 0)

\* line 42: "Reset again before full read"
rewind_again(pos) == seek(pos, 0)

\* pd.read_csv reads from the current position to the end.
readable(pos) == pos = 0

(***************************************************************************)
(* parse_workamajig_csv                                                    *)
(***************************************************************************)
\* pd.to_numeric(..., errors="coerce"): non-numeric and blank become NaN,
\* written here as a cell that is not "num".
to_numeric(cell) == IF cell.t = "num" THEN cell ELSE Blank

fillna0(cell) == IF cell.t = "num" THEN cell.v ELSE 0

\* Variant: negative hours are clamped to 0.
coerce_hours_clipped(cell) ==
    IF fillna0(to_numeric(cell)) < 0 THEN 0 ELSE fillna0(to_numeric(cell))

coerce_hours(cell) == fillna0(to_numeric(cell))

\* df.melt(id_vars=["Name"]): column-major, one record per (row, column).
melt(rows, dates) ==
    LET r == Len(rows)
        n == Len(dates)
    IN  [k \in 1..(r * n) |->
            LET j == ((k - 1) \div r) + 1
                i == ((k - 1) % r) + 1
            IN  [Name  |-> rows[i].Name,
                 Week  |-> dates[j],
                 Hours |-> rows[i].cells[j]]]

Failed(err, pos) ==
    [status |-> err, long |-> << >>, report_date |-> NaT, pos |-> pos]

parse_workamajig_csv(f, pos, now) ==
    LET p1 == rewind(pos)
    IN  IF ~readable(p1) THEN Failed("EmptyDataError", p1)
        ELSE
        LET rd    == header_report_date(f.text, now)
            dates == extract_dates(f.months, f.days)
            p2    == rewind_again(1)
        IN  IF ~readable(p2) THEN Failed("EmptyDataError", p2)
            ELSE IF f.width < Len(dates) THEN Failed("ValueError", 1)
            ELSE
            LET wide == melt(f.body, dates)
                long == [k \in DOMAIN wide |->
                            [wide[k] EXCEPT !.Hours = coerce_hours(@)]]
            IN  [status |-> "ok", long |-> long, report_date |-> rd, pos |-> 1]

(***************************************************************************)
(* build_weekly_headcount                                                  *)
(***************************************************************************)
ValidDepartments == Range(VALID_DEPARTMENTS)

\* lines 55-57: rename to (Name, Department), employees first.
roster_mapping(emp, svc) ==
    [i \in DOMAIN emp |-> [Name |-> emp[i].Resource_Name, Department |-> emp[i].Department]]
    \o
    [i \in DOMAIN svc |-> [Name |-> svc[i].Service, Department |-> svc[i].Department]]

\* line 59: long_df.merge(mapping, on="Name", how="left") -- one output row
\* per matching mapping row, in mapping order; one row with Department NaN
\* when no mapping row matches.
RECURSIVE merge_left(_, _)
merge_left(long, mapping) ==
    IF long = << >> THEN << >>
    ELSE LET rec  == Head(long)
             hits == SelectSeq(mapping, LAMBDA e : e.Name = rec.Name)
             rows == IF hits = << >>
                     THEN << [Name |-> rec.Name, Week |-> rec.Week,
                              Hours |-> rec.Hours, Department |-> NaN] >>
                     ELSE [i \in DOMAIN hits |->
                              [Name |-> rec.Name, Week |-> rec.Week,
                               Hours |-> rec.Hours,
                               Department |-> hits[i].Department]]
         IN  rows \o merge_left(Tail(long), mapping)

\* line 60
isin_valid(merged) == SelectSeq(merged, LAMBDA r : r.Department \in ValidDepartments)

\* line 62: Hours / HOURS_PER_FTE, in fixed point
headcount_demand(hours) == (hours * Scale) \div HOURS_PER_FTE

RECURSIVE SumDemand(_)
SumDemand(rows) ==
    IF rows = << >> THEN 0
    ELSE headcount_demand(Head(rows).Hours) + SumDemand(Tail(rows))

\* lines 64-67: groupby([Department, Week], dropna=True).sum()
group_keys(merged) ==
    { << merged[i].Department, merged[i].Week >> :
        i \in { k \in DOMAIN merged : merged[k].Week # NaT } }

group_sum(merged, key) ==
    SumDemand(SelectSeq(merged,
        LAMBDA r : r.Department = key[1] /\ r.Week = key[2]))

\* line 70: groupby("Department")["Resource Name"].count() counts the
\* non-null Resource Name cells of each department present in the sheet.
count_by_department(emp) ==
    [d \in { emp[i].Department : i \in DOMAIN emp } |->
        Cardinality({ i \in DOMAIN emp :
            emp[i].Department = d /\ emp[i].Resource_Name # NaN })]

\* line 71: .reindex(VALID_DEPARTMENTS).fillna(0).astype(int)
\* Variant: no reindex over the canonical departments.
reindex_missing(counts) == counts

reindex_fill(counts) ==
    [d \in ValidDepartments |-> IF d \in DOMAIN counts THEN counts[d] ELSE 0]

available_headcount(emp) == reindex_fill(count_by_department(emp))

\* Variant: Demand minus Available.
gap_reversed(avail, demand) == demand - avail * Scale

\* line 75, in fixed point
gap_of(avail, demand) == avail * Scale - demand

\* Variant: the report date itself is inside the window.
in_window_closed(week, rd) ==
    week >= rd /\ week <= rd + Timedelta(WINDOW_WEEKS)

\* line 77
in_window(week, rd) ==
    week > rd /\ week <= rd + Timedelta(WINDOW_WEEKS)

build_weekly_headcount(long, emp, svc, rd) ==
    LET mapping == roster_mapping(emp, svc)
        merged  == isin_valid(merge_left(long, mapping))
        avail   == available_headcount(emp)
        weekly0 == { [Department       |-> key[1],
                      Week             |-> key[2],
                      Headcount_Demand |-> group_sum(merged, key),
                      Available        |-> avail[key[1]],
                      Gap              |-> gap_of(avail[key[1]], group_sum(merged, key))] :
                     key \in group_keys(merged) }
    IN  [weekly    |-> { row \in weekly0 : in_window(row.Week, rd) },
         available |-> avail]

\* The parameters of def build_weekly_headcount (line 54).
BuildParams == { "long_df", "employees_df", "services_df", "report_date" }

(***************************************************************************)
(* Inputs.                                                                 *)
(***************************************************************************)
\* "Report - Start Date: 03/03/2025", the same without the blank, the two
\* texts the regex of line 36 does match, a text with no date, a blank cell.
HeaderDate == DateTok(3, 3, 2025)

HeaderTexts ==
    { << Tok("word"), Tok("label"), Tok("ws"), HeaderDate >>,
      << Tok("label"), HeaderDate >>,
      << Tok("label"), Tok("bslash"), HeaderDate >>,
      << Tok("label"), Tok("bslash"), Tok("s"), HeaderDate >>,
      << Tok("word") >>,
      << >> }

MonthCells == { << >>, << "March", "2025" >>, << "April", "2025" >> }

DayCells == { Num(7), Num(31), Text }

HourCells == { Num(16), Num(-8), Blank, Text }

BodyNames == { "Jane Doe" }

BodyRows(w) == [Name : BodyNames, cells : [1..w -> HourCells]]

\* An export in the fixed layout with n week columns in the header and w
\* hours columns in the body: w = n, or one fewer (a short body).
ExportsOf(texts, n, w) ==
    [text   : texts,
     months : [1..n -> MonthCells],
     days   : [1..n -> DayCells],
     width  : {w},
     body   : SeqsUpTo(BodyRows(w), MaxRows)]

Exports(texts) ==
    UNION { UNION { ExportsOf(texts, n, w) : w \in { k \in (n - 1)..n : k >= 0 } } :
              n \in 0..MaxCols }

\* Exports with at most one week column.
NarrowExports(texts) ==
    UNION { ExportsOf(texts, n, n) : n \in 0..1 }

PlainText == << Tok("word") >>

\* Day cells of a header read on its own.
HeadDayCells == { Num(3), Num(7), Num(10), Text }

\* The header rows of an export, up to MaxHead week columns, without a body.
Heads ==
    UNION { [text   : { PlainText },
             months : [1..n -> MonthCells],
             days   : [1..n -> HeadDayCells],
             width  : { n },
             body   : { << >> }] : n \in 0..MaxHead }

\* Roster lines: a named employee or a line whose name cell is blank, in a
\* canonical department or in one outside the canonical set.
EmployeeRows ==
    [Resource_Name : { "Jane Doe", NaN },
     Department    : { "Video", "Account" }]

\* Service lines: one whose name collides with an employee, one that does not.
ServiceRows ==
    { [Service |-> "Jane Doe", Department |-> "Strategy"],
      [Service |-> "Web Dev",  Department |-> "Video"] }

\* The roster of a session that runs the whole pipeline.
SessionEmployees == << [Resource_Name |-> "Jane Doe", Department |-> "Video"] >>

SessionServices == << [Service |-> "Web Dev", Department |-> "Strategy"] >>

\* 2025-03-03, the report date of the export; the session starts two days on.
ReportDay == Timestamp(2025, 3, 3)

StartDay == Timestamp(2025, 3, 5)

\* No week, the report date, a week inside the 84-day window, its last day,
\* and the week after it.
LongWeeks ==
    { NaT, ReportDay, ReportDay + 7, ReportDay + 84, ReportDay + 91 }

LongRecords == [Name : { "Jane Doe" }, Week : LongWeeks, Hours : { 16, 48 }]

\* Keyword arguments of a call: none (resource-app.py) or window_weeks=w.
KwArgs == { {} } \cup { { << "window_weeks", w >> } : w \in { 13, 26 } }

NoFile ==
    [text |-> << >>, months |-> << >>, days |-> << >>, width |-> 0, body |-> << >>]

(***************************************************************************)
(* State.                                                                  *)
(***************************************************************************)
VARIABLES
    today,          \* the clock: pd.Timestamp.today().normalize()
    file,           \* content of the uploaded export
    file_pos,       \* position of the file object
    employees_df,   \* sheet "Employees - Resources"
    services_df,    \* sheet "Services"
    long_df,        \* long records (parse result / argument of the build)
    report_date,    \* report date (parse result / argument of the build)
    parse_log,      \* what each call of parse_workamajig_csv returned, and when
    kwargs,         \* keyword arguments of the build call
    build_status,   \* "none", "ok" or the exception raised
    weekly,         \* returned weekly rows
    available,      \* returned available headcount
    dates,          \* what a call of extract_dates(head) returned
    defs_upload,    \* file held by the definitions uploader, or NoUpload
    defs_stored,    \* content of DEFS_PATH, or Absent
    active_csv,     \* file held by the Active Jobs uploader, or NoUpload
    oppty_csv,      \* file held by the Oppty Jobs uploader, or NoUpload
    heatmap,        \* the last run computed the heat maps
    cleared         \* Clear Definitions was clicked and no new definitions
                    \* file has been selected since

vars == << today, file, file_pos, employees_df, services_df, long_df,
           report_date, parse_log, kwargs, build_status, weekly, available,
           dates, defs_upload, defs_stored, active_csv, oppty_csv, heatmap,
           cleared >>

pipeline == << today, file, file_pos, employees_df, services_df, long_df,
               report_date, parse_log, kwargs, build_status, weekly,
               available, dates >>

session == << defs_upload, defs_stored, active_csv, oppty_csv, heatmap, cleared >>

\* st.file_uploader returns None while no file is selected.
NoUpload == 0

\* DEFS_PATH.exists() is false.
Absent == 0

Files == 1..MaxFiles

\* No script session is modelled.
NoSession ==
    /\ defs_upload = NoUpload
    /\ defs_stored = Absent
    /\ active_csv = NoUpload
    /\ oppty_csv = NoUpload
    /\ heatmap = FALSE
    /\ cleared = FALSE

NoDates == [status |-> "none", list |-> << >>]

NoResult ==
    /\ kwargs = {}
    /\ build_status = "none"
    /\ weekly = {}
    /\ available = << >>
    /\ dates = NoDates

\* A session that parses an uploaded export: any header text over a narrow
\* export, or any export under a header text without a date.
InitParse ==
    /\ today = StartDay
    /\ file \in Exports({ PlainText }) \cup NarrowExports(HeaderTexts)
    /\ file_pos = 0
    /\ employees_df = << >>
    /\ services_df = << >>
    /\ long_df = << >>
    /\ report_date = NaT
    /\ parse_log = << >>
    /\ NoResult
    /\ NoSession

\* A session that parses an export and builds the weekly table from it.
Init ==
    /\ today = StartDay
    /\ file \in Exports({ PlainText })
    /\ file_pos = 0
    /\ employees_df = SessionEmployees
    /\ services_df = SessionServices
    /\ long_df = << >>
    /\ report_date = NaT
    /\ parse_log = << >>
    /\ NoResult
    /\ NoSession

\* A call of extract_dates on the header rows of an export.
InitDates ==
    /\ today = StartDay
    /\ file \in Heads
    /\ file_pos = 0
    /\ employees_df = << >>
    /\ services_df = << >>
    /\ long_df = << >>
    /\ report_date = NaT
    /\ parse_log = << >>
    /\ NoResult
    /\ NoSession

\* A call of build_weekly_headcount on given arguments.
InitBuild ==
    /\ today = StartDay
    /\ file = NoFile
    /\ file_pos = 0
    /\ employees_df \in SeqsUpTo(EmployeeRows, MaxEmp)
    /\ services_df \in SeqsUpTo(ServiceRows, MaxSvc)
    /\ long_df \in SeqsUpTo(LongRecords, MaxLong)
    /\ report_date = ReportDay
    /\ parse_log = << >>
    /\ NoResult
    /\ NoSession

(***************************************************************************)
(* Actions.                                                                *)
(***************************************************************************)
\* Midnight passes.
Tick ==
    /\ today < StartDay + MaxTicks
    /\ today' = today + 1
    /\ UNCHANGED << file, file_pos, employees_df, services_df, long_df,
                    report_date, parse_log, kwargs, build_status, weekly, available,
                    dates, session >>

\* long, report_date = parse_workamajig_csv(file_obj)
Parse ==
    /\ Len(parse_log) < MaxCalls
    /\ LET r == parse_workamajig_csv(file, file_pos, today)
       IN  /\ file_pos' = r.pos
           /\ parse_log' = Append(parse_log,
                  [status |-> r.status, long |-> r.long,
                   report_date |-> r.report_date, day |-> today])
           /\ IF r.status = "ok"
              THEN long_df' = r.long /\ report_date' = r.report_date
              ELSE UNCHANGED << long_df, report_date >>
    /\ UNCHANGED << today, file, employees_df, services_df,
                    kwargs, build_status, weekly, available, dates, session >>

\* dates = extract_dates(head)
ExtractDates ==
    /\ dates.status = "none"
    /\ dates' = [status |-> "ok", list |-> extract_dates(file.months, file.days)]
    /\ UNCHANGED << today, file, file_pos, employees_df, services_df, long_df,
                    report_date, parse_log, kwargs, build_status, weekly, available,
                    session >>

\* weekly, available = build_weekly_headcount(long, employees, services,
\*                                            report_date, **kw)
\* A keyword that is no parameter of the function raises TypeError.
Build(kw) ==
    /\ build_status = "none"
    /\ kwargs' = kw
    /\ IF \E a \in kw : a[1] \notin BuildParams
       THEN /\ build_status' = "TypeError"
            /\ UNCHANGED << weekly, available >>
       ELSE LET r == build_weekly_headcount(long_df, employees_df, services_df, report_date)
            IN  /\ build_status' = "ok"
                /\ weekly' = r.weekly
                /\ available' = r.available
    /\ UNCHANGED << today, file, file_pos, employees_df, services_df,
                    long_df, report_date, parse_log, dates, session >>

Call == \E kw \in KwArgs : Build(kw)

\* The script calls the build right after a parse that returned.
Parsed == parse_log # << >> /\ parse_log[Len(parse_log)].status = "ok"

RunBuild == Parsed /\ Call

(***************************************************************************)
(* The script of src/resource-app.py: one run per user interaction.        *)
(***************************************************************************)
\* lines 35-38: the file the uploader holds is written to DEFS_PATH.
save_definitions(upload, stored) ==
    IF upload # NoUpload THEN upload ELSE stored

\* lines 42-44: the button of this run unlinks DEFS_PATH.
clear_definitions(button, stored) ==
    IF button THEN Absent ELSE stored

\* line 55: if DEFS_PATH.exists() and active_csv
computes_heatmap(stored, active) ==
    stored # Absent /\ active # NoUpload

\* One run of the script, top to bottom, with the widget values of the run.
Run(upload, active, oppty, button) ==
    LET saved == save_definitions(upload, defs_stored)
        kept  == clear_definitions(button, saved)
    IN  /\ defs_upload' = upload
        /\ active_csv' = active
        /\ oppty_csv' = oppty
        /\ defs_stored' = kept
        /\ heatmap' = computes_heatmap(kept, active)
        /\ UNCHANGED pipeline

\* The first run of a session: the uploaders are empty, DEFS_PATH is what
\* an earlier session left in data/.
InitSession ==
    /\ today = StartDay
    /\ file = NoFile
    /\ file_pos = 0
    /\ employees_df = << >>
    /\ services_df = << >>
    /\ long_df = << >>
    /\ report_date = NaT
    /\ parse_log = << >>
    /\ NoResult
    /\ defs_upload = NoUpload
    /\ defs_stored \in { Absent } \cup Files
    /\ active_csv = NoUpload
    /\ oppty_csv = NoUpload
    /\ heatmap = FALSE
    /\ cleared = FALSE

\* The user selects a new definitions file in the uploader.
SelectDefinitions ==
    \E f \in Files :
        /\ f # defs_upload
        /\ Run(f, active_csv, oppty_csv, FALSE)
        /\ cleared' = FALSE

\* The user removes the file from the definitions uploader.
RemoveDefinitions ==
    /\ defs_upload # NoUpload
    /\ Run(NoUpload, active_csv, oppty_csv, FALSE)
    /\ UNCHANGED cleared

\* The user clicks Clear Definitions.
ClickClear ==
    /\ Run(defs_upload, active_csv, oppty_csv, TRUE)
    /\ cleared' = TRUE

\* The user selects or removes the Active Jobs CSV.
ChangeActive ==
    \E f \in { NoUpload } \cup Files :
        /\ f # active_csv
        /\ Run(defs_upload, f, oppty_csv, FALSE)
        /\ UNCHANGED cleared

\* The user selects or removes the Oppty Jobs CSV.
ChangeOppty ==
    \E f \in { NoUpload } \cup Files :
        /\ f # oppty_csv
        /\ Run(defs_upload, active_csv, f, FALSE)
        /\ UNCHANGED cleared

NextSession ==
    \/ SelectDefinitions
    \/ RemoveDefinitions
    \/ ClickClear
    \/ ChangeActive
    \/ ChangeOppty

NextParse == Tick \/ Parse

NextBuild == Call

NextDates == ExtractDates

Next == Tick \/ Parse \/ RunBuild

Spec == Init /\ [][Next]_vars

SpecParse == InitParse /\ [][NextParse]_vars

SpecBuild == InitBuild /\ [][NextBuild]_vars

SpecDates == InitDates /\ [][NextDates]_vars

SpecSession == InitSession /\ [][NextSession]_vars

(***************************************************************************)
(* Vocabulary of the properties.                                           *)
(***************************************************************************)
\* name is listed with department d in one of the two roster sheets
MapsTo(name, d) ==
    \/ \E i \in DOMAIN employees_df :
          employees_df[i].Resource_Name = name /\ employees_df[i].Department = d
    \/ \E i \in DOMAIN services_df :
          services_df[i].Service = name /\ services_df[i].Department = d

\* some long record of week w belongs to a resource of canonical department d
DemandCell(d, w) ==
    /\ d \in ValidDepartments
    /\ w # NaT
    /\ \E i \in DOMAIN long_df : long_df[i].Week = w /\ MapsTo(long_df[i].Name, d)

RowAt(d, w) == \E row \in weekly : row.Department = d /\ row.Week = w

RowKeys == { << row.Department, row.Week >> : row \in weekly }

ValidWeeks == { long_df[i].Week : i \in DOMAIN long_df } \ { NaT }

RECURSIVE SumHours(_)
SumHours(I) ==
    IF I = {} THEN 0
    ELSE LET i == CHOOSE k \in I : TRUE
         IN  long_df[i].Hours + SumHours(I \ { i })

\* Demand (fixed point) is h hours divided by 32
IsHoursOver32(demand, h) == demand * 32 = h * Scale

\* the department of the latest roster entry of a name, services after employees
Listed(name) == \E d \in { "Video", "Strategy", "Account" } : MapsTo(name, d)

ResolvedDept(name) ==
    LET sv == { i \in DOMAIN services_df : services_df[i].Service = name }
        em == { i \in DOMAIN employees_df : employees_df[i].Resource_Name = name }
        last(I) == CHOOSE i \in I : \A k \in I : k <= i
    IN  IF sv # {} THEN services_df[last(sv)].Department
        ELSE employees_df[last(em)].Department

\* the Start Date pattern of the export: the label, whitespace, a date
StartDateAt(text, i, j) ==
    /\ i \in DOMAIN text /\ j \in DOMAIN text /\ i < j
    /\ text[i].kind = "label"
    /\ \A k \in (i + 1)..(j - 1) : text[k].kind = "ws"
    /\ text[j].kind = "date"

HasStartDate(text) == \E i, j \in DOMAIN text : StartDateAt(text, i, j)

StartDateOf(text) ==
    LET j == CHOOSE k \in DOMAIN text : \E i \in DOMAIN text : StartDateAt(text, i, k)
    IN  Timestamp(text[j].yyyy, text[j].mm, text[j].dd)

Returned == { k \in DOMAIN parse_log : parse_log[k].status = "ok" }

\* the month/year token that stands at or to the left of column j
FilledMonth(j) ==
    LET ks == { k \in 1..j : file.months[k] # << >> }
    IN  IF ks = {} THEN << >>
        ELSE file.months[CHOOSE k \in ks : \A x \in ks : x <= k]

\* the (month/year, day) tokens of column j spell a calendar date
TokensParse(j) ==
    LET m == FilledMonth(j)
        d == file.days[j]
    IN  /\ Len(m) = 2
        /\ m[1] \in Range(MonthNames)
        /\ m[2] \in { "2025", "2026" }
        /\ d.t = "num"
        /\ d.v >= 1
        /\ d.v <= DaysInMonth(MonthNumber(m[1]), YearNumber(m[2]))

\* the long record of body row i and week column j
RecordOf(long, i, j) == long[(j - 1) * Len(file.body) + i]

\* the calendar date the (month/year, day) tokens of column j spell
TokenDate(j) ==
    LET m == FilledMonth(j)
    IN  DaysBeforeYear(YearNumber(m[2]))
          + DaysBeforeMonth(MonthNumber(m[1]), YearNumber(m[2]))
          + file.days[j].v

\* the hours of the body cell of row i under column j: its number, else 0
CellHours(i, j) ==
    LET cell == file.body[i].cells[j]
    IN  IF cell.t = "num" THEN cell.v ELSE 0

\* the body cells under columns whose tokens parse to week w, of the rows
\* whose name maps to department d
CellsOf(d, w) ==
    { c \in (DOMAIN file.body) \X (DOMAIN file.days) :
        /\ TokensParse(c[2])
        /\ TokenDate(c[2]) = w
        /\ MapsTo(file.body[c[1]].Name, d) }

RECURSIVE SumCells(_)
SumCells(C) ==
    IF C = {} THEN 0
    ELSE LET c == CHOOSE x \in C : TRUE
         IN  CellHours(c[1], c[2]) + SumCells(C \ { c })

(***************************************************************************)
(* Properties of build_weekly_headcount (SpecBuild).                       *)
(***************************************************************************)
\* C1: every returned row has ReportDate < Week <= ReportDate + 84 days; a
\* demand row at exactly ReportDate is excluded, one at exactly ReportDate +
\* 84 days is included, and no demand row inside the window is removed.
C1_Window ==
    build_status = "ok" =>
        /\ \A row \in weekly :
              report_date < row.Week /\ row.Week <= report_date + 84
        /\ \A d \in ValidDepartments : \A w \in ValidWeeks :
              DemandCell(d, w) =>
                 (RowAt(d, w) <=> (report_date < w /\ w <= report_date + 84))

C1_Witness ==
    /\ build_status = "ok"
    /\ \E d \in ValidDepartments :
          /\ DemandCell(d, report_date)
          /\ ~RowAt(d, report_date)
          /\ RowAt(d, report_date + 84)

\* C2: a call with window_weeks = w (12, 13 or 26) is accepted and returns
\* exactly the aggregated rows with ReportDate < Week <= ReportDate + 7*w.
C2_WindowArgument ==
    \A w \in { 12, 13, 26 } :
        kwargs = { << "window_weeks", w >> } =>
            /\ build_status = "ok"
            /\ RowKeys = { key \in ValidDepartments \X ValidWeeks :
                             /\ DemandCell(key[1], key[2])
                             /\ report_date < key[2]
                             /\ key[2] <= report_date + 7 * w }

\* C4: a name listed more than once resolves to the department of its
\* latest entry (services after employees), so the hours of each long
\* record are in the Demand of exactly one (Department, Week) cell, once.
C4_LastWriteWins ==
    build_status = "ok" =>
        \A row \in weekly :
            IsHoursOver32(row.Headcount_Demand,
                SumHours({ i \in DOMAIN long_df :
                             /\ long_df[i].Week = row.Week
                             /\ Listed(long_df[i].Name)
                             /\ ResolvedDept(long_df[i].Name) = row.Department }))

\* C7: Gap = Available - Demand in every returned row, Available being the
\* AvailableHeadcount value of the row's Department.
C7_Gap ==
    build_status = "ok" =>
        \A row \in weekly :
            /\ row.Department \in DOMAIN available
            /\ row.Available = available[row.Department]
            /\ row.Gap = row.Available * Scale - row.Headcount_Demand

C7_Witness ==
    /\ build_status = "ok"
    /\ \E row \in weekly :
          /\ row.Available > 0
          /\ row.Headcount_Demand > 0
          /\ row.Available * Scale # row.Headcount_Demand

\* C8 as stated: AvailableHeadcount has exactly the 8 canonical departments
\* as keys, each value the number of employee-roster rows of that department.
C8_AvailableCountsRows ==
    build_status = "ok" =>
        /\ DOMAIN available = ValidDepartments
        /\ Cardinality(DOMAIN available) = 8
        /\ \A d \in ValidDepartments :
              available[d] = Cardinality({ i \in DOMAIN employees_df :
                                             employees_df[i].Department = d })

\* C8 amended: AvailableHeadcount has exactly the 8 canonical departments as
\* keys, each value the number of employee-roster rows of that department
\* whose Resource Name cell is not blank (0 when there are none); service
\* rows and hours do not enter it.
C8_AvailableCountsNamedRows ==
    build_status = "ok" =>
        /\ DOMAIN available = ValidDepartments
        /\ Cardinality(DOMAIN available) = 8
        /\ \A d \in ValidDepartments :
              /\ available[d] \in Nat
              /\ available[d] = Cardinality({ i \in DOMAIN employees_df :
                                    /\ employees_df[i].Department = d
                                    /\ employees_df[i].Resource_Name # NaN })

C8_Witness ==
    /\ build_status = "ok"
    /\ \E i, k \in DOMAIN employees_df :
          /\ employees_df[i].Resource_Name = NaN
          /\ employees_df[k].Resource_Name # NaN
          /\ employees_df[i].Department = employees_df[k].Department
          /\ employees_df[i].Department \in ValidDepartments
          /\ available[employees_df[i].Department] = 1

\* C9: Demand of a returned (Department, Week) row is the sum of Hours of
\* the long records of that Week whose name maps to that Department, over
\* 32; no row exists without a matching record.
C9_DemandIsSum ==
    build_status = "ok" =>
        \A row \in weekly :
            /\ DemandCell(row.Department, row.Week)
            /\ IsHoursOver32(row.Headcount_Demand,
                  SumHours({ i \in DOMAIN long_df :
                               /\ long_df[i].Week = row.Week
                               /\ MapsTo(long_df[i].Name, row.Department) }))

(***************************************************************************)
(* Properties of parse_workamajig_csv (SpecParse, Spec).                   *)
(***************************************************************************)
\* C3: the report date is the date of "Start Date: MM/DD/YYYY" when the
\* header text contains it, and the processing date only when it does not.
C3_ReportDateFromHeader ==
    \A k \in Returned :
        parse_log[k].report_date =
            IF HasStartDate(file.text) THEN StartDateOf(file.text)
            ELSE parse_log[k].day

\* C5 as stated: no returned long record has an undefined Week.
C5_NoUndefinedWeek ==
    \A k \in Returned :
        \A n \in DOMAIN parse_log[k].long : parse_log[k].long[n].Week # NaT

\* C5 amended: the parser returns one long record per body cell of every
\* header column; the Week of a record is undefined exactly when the tokens
\* of its column fail to parse; such records are dropped downstream, so no
\* row returned by build_weekly_headcount has an undefined Week.
C5_UndefinedWeekDroppedDownstream ==
    /\ \A k \in Returned :
          /\ Len(parse_log[k].long) = Len(file.body) * Len(file.days)
          /\ \A i \in DOMAIN file.body : \A j \in DOMAIN file.days :
                (RecordOf(parse_log[k].long, i, j).Week = NaT) <=> ~TokensParse(j)
    /\ build_status = "ok" => \A row \in weekly : row.Week # NaT

C5_Witness ==
    /\ build_status = "ok"
    /\ weekly # {}
    /\ \E n \in DOMAIN long_df :
          /\ long_df[n].Week = NaT
          /\ long_df[n].Hours # 0
          /\ \E d \in ValidDepartments : MapsTo(long_df[n].Name, d)

\* C6 as stated: every returned long record has Hours >= 0.
C6_HoursNonNegative ==
    \A k \in Returned :
        \A n \in DOMAIN parse_log[k].long : parse_log[k].long[n].Hours >= 0

\* C6 amended: every returned long record has a numeric Hours, never null:
\* a blank or non-numeric cell becomes 0 and a numeric cell keeps its
\* value, a negative one included.
C6_HoursNumeric ==
    \A k \in Returned :
        \A i \in DOMAIN file.body : \A j \in DOMAIN file.days :
            LET cell == file.body[i].cells[j]
                rec  == RecordOf(parse_log[k].long, i, j)
            IN  /\ rec.Hours \in Int
                /\ rec.Name = file.body[i].Name
                /\ cell.t # "num" => rec.Hours = 0
                /\ cell.t = "num" => rec.Hours = cell.v

C6_Witness ==
    \E k \in Returned :
        \E n, m \in DOMAIN parse_log[k].long :
            /\ parse_log[k].long[n].Hours < 0
            /\ parse_log[k].long[m].Hours = 0
            /\ \E i \in DOMAIN file.body : \E j \in DOMAIN file.days :
                  file.body[i].cells[j].t # "num"

\* C10 as stated: two calls on the same export return the same long
\* records and the same report date.
C10_Idempotent ==
    \A a, b \in DOMAIN parse_log :
        /\ parse_log[a].status = parse_log[b].status
        /\ parse_log[a].long = parse_log[b].long
        /\ parse_log[a].report_date = parse_log[b].report_date

\* C10 amended: two calls on the same export return the same long records,
\* and the same report date when both run on the same day.
C10_IdempotentSameDay ==
    \A a, b \in DOMAIN parse_log :
        /\ parse_log[a].status = parse_log[b].status
        /\ parse_log[a].long = parse_log[b].long
        /\ parse_log[a].day = parse_log[b].day =>
              parse_log[a].report_date = parse_log[b].report_date

C10_Witness ==
    /\ Len(parse_log) >= 2
    /\ parse_log[1].status = "ok"
    /\ parse_log[1].long # << >>
    /\ parse_log[1].day # parse_log[2].day
    /\ parse_log[1].report_date # parse_log[2].report_date

(***************************************************************************)
(* Properties of the header dates (Spec, SpecDates).                       *)
(***************************************************************************)
\* C11: a malformed header date token fails its own column only. On an
\* export whose body has a column for every header column the parse
\* returns whatever the tokens are; under every column whose tokens parse,
\* each record carries the date of that column's tokens and the hours of
\* the cell under it; and the Demand of every returned weekly row is the
\* sum of the hours under the columns whose tokens parse to its Week, so
\* the hours under a failed column are in no Demand sum.
C11_ColumnLocalFailure ==
    /\ file.width >= Len(file.days) =>
          \A k \in DOMAIN parse_log : parse_log[k].status = "ok"
    /\ \A k \in Returned :
          /\ Len(parse_log[k].long) = Len(file.body) * Len(file.days)
          /\ \A i \in DOMAIN file.body : \A j \in DOMAIN file.days :
                TokensParse(j) =>
                   /\ RecordOf(parse_log[k].long, i, j).Week = TokenDate(j)
                   /\ RecordOf(parse_log[k].long, i, j).Hours = CellHours(i, j)
    /\ build_status = "ok" =>
          \A row \in weekly :
             /\ CellsOf(row.Department, row.Week) # {}
             /\ IsHoursOver32(row.Headcount_Demand,
                              SumCells(CellsOf(row.Department, row.Week)))

\* a failed column with hours under it stands left of a column that parses,
\* and the one returned row carries the hours of the parsed column only
C11_Witness ==
    /\ build_status = "ok"
    /\ Len(file.days) = 2
    /\ ~TokensParse(1)
    /\ TokensParse(2)
    /\ \E i \in DOMAIN file.body :
          /\ CellHours(i, 1) > 0
          /\ CellHours(i, 2) > 0
    /\ \E row \in weekly :
          /\ row.Week = TokenDate(2)
          /\ weekly = { row }
          /\ IsHoursOver32(row.Headcount_Demand,
                SumCells({ c \in (DOMAIN file.body) \X { 2 } : TRUE }))

\* C12: extract_dates forward-fills the month/year row left to right. The
\* result has one entry per header column, in order; the entry of a column
\* is the date of the nearest non-blank month/year token at or to its left
\* with the column's own day token, and the undefined date when no such
\* token stands there (or the tokens spell no date). The month row
\* ["March 2025", blank, "April 2025"] with the day row [3, 10, 7] gives
\* 2025-03-03, 2025-03-10, 2025-04-07.
C12_ForwardFill ==
    dates.status = "ok" =>
        /\ Len(dates.list) = Len(file.days)
        /\ \A j \in DOMAIN file.days :
              dates.list[j] = IF FilledMonth(j) = << >> THEN NaT
                              ELSE IF TokensParse(j) THEN TokenDate(j)
                              ELSE NaT
        /\ ( /\ file.months = << << "March", "2025" >>, << >>, << "April", "2025" >> >>
             /\ file.days = << Num(3), Num(10), Num(7) >> )
           => dates.list = << 62, 69, 97 >>

\* the example of the claim is run, and its blank column takes the month
\* of the column to its left
C12_Witness ==
    /\ dates.status = "ok"
    /\ file.months = << << "March", "2025" >>, << >>, << "April", "2025" >> >>
    /\ file.days = << Num(3), Num(10), Num(7) >>
    /\ dates.list[2] = 69

(***************************************************************************)
(* Properties of the script session (SpecSession).                         *)
(***************************************************************************)
\* C13: once Clear Definitions is clicked, the stored definitions file is
\* absent at the end of that run and of every later run, and no heat map is
\* computed, until the user selects a new definitions file in the uploader.
C13_ClearedStaysCleared ==
    cleared => (defs_stored = Absent /\ ~heatmap)

====
